---- MODULE Spec2Model ----
(***************************************************************************)
(* Model of the epanet-js-locales translation workflow:                    *)
(*   - catalogs (nested JSON documents) and the tree walker / path mutator *)
(*     of src/translate/walkers.ts,                                        *)
(*   - the diff engine of src/translate/diff.ts,                           *)
(*   - the orchestrator run() of src/main.ts and of its reporting variant  *)
(*     (src/unnamed/part_001), stepped at its await points.                *)
(* Specifications: Spec (a run), SpecDiff (one diffKeys call), SpecApply   *)
(* (diffKeys and the proposed document), SpecWalk (one walkLeaves),        *)
(* SpecPath (setAtPath / getAtPath / deleteAtPath), SpecChunk (chunk) and  *)
(* SpecRetry (retry stepped at its awaits).                                *)
(***************************************************************************)
EXTENDS Integers, Sequences, FiniteSets, TLC

(***************************************************************************)
(* JSON values.  A node is a record [t, v, kids]:                          *)
(*   t = "str"  a string, v its content                                    *)
(*   t = "obj"  a plain object, kids maps its own keys to nodes            *)
(*   t = "num"  a number (stands for every non-string primitive)           *)
(*   t = "arr"  an array, kids maps its indices ("0", "1", ...) to nodes   *)
(*   t = "null" / "undef"  null and undefined                              *)
(* Keys are named by TLA+ strings; Chars gives the UTF-16 code units of a  *)
(* key, which is what join and localeCompare look at.                      *)
(***************************************************************************)
NoKids == [k \in {} |-> 0]

Str(s) == [t |-> "str", v |-> s, kids |-> NoKids]

Num == [t |-> "num", v |-> "", kids |-> NoKids]

Arr == [t |-> "arr", v |-> "", kids |-> NoKids]

ArrOf(f) == [t |-> "arr", v |-> "", kids |-> f]

Obj(f) == [t |-> "obj", v |-> "", kids |-> f]

EmptyDoc == Obj(NoKids)

\* the separator of path.join("\u0000")
NUL == 0

\* code units of the keys used in the model
Chars(k) ==
  CASE k = "a" -> <<97>>
    [] k = "b" -> <<98>>
    [] k = "a<NUL>b" -> <<97, NUL, 98>>
    [] k = "B" -> <<66>>
    [] k = "c" -> <<99>>
    [] k = "0" -> <<48>>
    [] OTHER -> <<>>

\* path.join("\u0000"): the code units of the joined key
RECURSIVE join(_)
join(path) ==
  IF Len(path) = 0 THEN <<>>
  ELSE IF Len(path) = 1 THEN Chars(path[1])
  ELSE Chars(path[1]) \o <<NUL>> \o join(Tail(path))

\* collation weight of a code unit under the default (root) collation:
\* U+0000 is ignorable (weight 0, dropped), digits sort before letters,
\* letters sort a < A < b < B
Weight(c) ==
  CASE c = 0 -> 0
    [] c >= 48 /\ c <= 57 -> c - 100
    [] c >= 97 /\ c <= 122 -> 2 * (c - 96)
    [] c >= 65 /\ c <= 90 -> 2 * (c - 64) + 1
    [] OTHER -> 1000 + c

CollationKey(k) ==
  LET ws == [i \in 1..Len(Chars(k)) |-> Weight(Chars(k)[i])]
  IN SelectSeq(ws, LAMBDA w : w # 0)

\* lexicographic comparison of two weight sequences: -1, 0 or 1
RECURSIVE SeqCompare(_, _)
SeqCompare(s, u) ==
  IF Len(s) = 0 /\ Len(u) = 0 THEN 0
  ELSE IF Len(s) = 0 THEN -1
  ELSE IF Len(u) = 0 THEN 1
  ELSE IF s[1] < u[1] THEN -1
  ELSE IF s[1] > u[1] THEN 1
  ELSE SeqCompare(Tail(s), Tail(u))

\* a.localeCompare(b)
localeCompare(a, b) == SeqCompare(CollationKey(a), CollationKey(b))

\* Object.keys(obj).sort((a, b) => a.localeCompare(b))
RECURSIVE SortKeys(_)
SortKeys(S) ==
  IF S = {} THEN <<>>
  ELSE LET m == CHOOSE k \in S : \A j \in S : localeCompare(k, j) <= 0
       IN <<m>> \o SortKeys(S \ {m})

\* function* walkLeaves(obj, prefix): the leaves, in the order yielded
RECURSIVE walkLeaves(_, _)
RECURSIVE WalkKeys(_, _, _)
\* the loop descending into arrays as into plain objects
WalkKeys_IntoArrays(obj, prefix, keys) ==
  IF Len(keys) = 0 THEN <<>>
  ELSE LET k == keys[1]
           v == obj.kids[k]
           next == Append(prefix, k)
           here == IF v.t \in {"obj", "arr"} THEN walkLeaves(v, next)
                   ELSE IF v.t = "str" THEN <<[path |-> next, value |-> v.v]>>
                   ELSE <<>>
       IN here \o WalkKeys(obj, prefix, Tail(keys))

WalkKeys(obj, prefix, keys) ==
  IF Len(keys) = 0 THEN <<>>
  ELSE LET k == keys[1]
           v == obj.kids[k]
           next == Append(prefix, k)
           here == IF v.t = "obj" THEN walkLeaves(v, next)
                   ELSE IF v.t = "str" THEN <<[path |-> next, value |-> v.v]>>
                   ELSE <<>>
       IN here \o WalkKeys(obj, prefix, Tail(keys))

walkLeaves(obj, prefix) == WalkKeys(obj, prefix, SortKeys(DOMAIN obj.kids))

Range(s) == {s[i] : i \in 1..Len(s)}

\* new Map(entries).has(key) / .get(key): with several entries under one
\* key the last one wins
MapHas(leaves, key) == \E i \in 1..Len(leaves) : join(leaves[i].path) = key

MapGet(leaves, key) ==
  LET is == {i \in 1..Len(leaves) : join(leaves[i].path) = key}
      last == CHOOSE i \in is : \A j \in is : j <= i
  IN leaves[last].value

\* diff.ts 21-27: the localEN leaves gone from liveEN that target holds
RECURSIVE DeletedFrom(_, _, _)
DeletedFrom(localLeaves, liveSet, targetLeaves) ==
  IF Len(localLeaves) = 0 THEN <<>>
  ELSE LET leaf == localLeaves[1]
           key == join(leaf.path)
           rest == DeletedFrom(Tail(localLeaves), liveSet, targetLeaves)
       IN IF key \notin liveSet /\ MapHas(targetLeaves, key)
          THEN <<leaf.path>> \o rest
          ELSE rest

\* the loop with the pairs collected in reverse
RECURSIVE ToTranslateFrom_Reversed(_, _, _)
ToTranslateFrom_Reversed(liveLeaves, localLeaves, targetLeaves) ==
  IF Len(liveLeaves) = 0 THEN <<>>
  ELSE LET leaf == liveLeaves[1]
           key == join(leaf.path)
           isNew == ~MapHas(targetLeaves, key)
           isModified == MapHas(localLeaves, key)
                         /\ MapGet(localLeaves, key) # leaf.value
           rest == ToTranslateFrom_Reversed(Tail(liveLeaves), localLeaves,
                                            targetLeaves)
       IN IF isNew \/ isModified THEN rest \o <<leaf>> ELSE rest

\* the loop as two tests that each push (the NEW and MODIFIED loops of the
\* legacy src/translate.ts 520-543)
RECURSIVE ToTranslateFrom_Legacy(_, _, _)
ToTranslateFrom_Legacy(liveLeaves, localLeaves, targetLeaves) ==
  IF Len(liveLeaves) = 0 THEN <<>>
  ELSE LET leaf == liveLeaves[1]
           key == join(leaf.path)
           isNew == ~MapHas(targetLeaves, key)
           isModified == MapHas(localLeaves, key)
                         /\ MapGet(localLeaves, key) # leaf.value
           rest == ToTranslateFrom_Legacy(Tail(liveLeaves), localLeaves,
                                          targetLeaves)
       IN (IF isNew THEN <<leaf>> ELSE <<>>)
          \o (IF isModified THEN <<leaf>> ELSE <<>>) \o rest

\* diff.ts 33-46: the liveEN leaves that are new or modified, in order
RECURSIVE ToTranslateFrom(_, _, _)
ToTranslateFrom(liveLeaves, localLeaves, targetLeaves) ==
  IF Len(liveLeaves) = 0 THEN <<>>
  ELSE LET leaf == liveLeaves[1]
           key == join(leaf.path)
           targetHas == MapHas(targetLeaves, key)
           isNew == ~targetHas
           isModified == MapHas(localLeaves, key)
                         /\ MapGet(localLeaves, key) # leaf.value
           rest == ToTranslateFrom(Tail(liveLeaves), localLeaves, targetLeaves)
       IN IF isNew \/ isModified THEN <<leaf>> \o rest ELSE rest

\* diffKeys(liveEN, localEN, target)
diffKeys(live, local, target) ==
  LET liveLeaves == walkLeaves(live, <<>>)
      localLeaves == walkLeaves(local, <<>>)
      targetLeaves == walkLeaves(target, <<>>)
      liveSet == {join(l.path) : l \in Range(liveLeaves)}
      todo == ToTranslateFrom(liveLeaves, localLeaves, targetLeaves)
  IN [deleted |-> DeletedFrom(localLeaves, liveSet, targetLeaves),
      toTranslatePaths |-> [i \in 1..Len(todo) |-> todo[i].path],
      toTranslateValues |-> [i \in 1..Len(todo) |-> todo[i].value]]

EmptyDiff ==
  [deleted |-> <<>>, toTranslatePaths |-> <<>>, toTranslateValues |-> <<>>]

(***************************************************************************)
(* Path mutator (src/translate/walkers.ts)                                 *)
(***************************************************************************)
Undefined == [t |-> "undef", v |-> "", kids |-> NoKids]

Null == [t |-> "null", v |-> "", kids |-> NoKids]

\* acc[key] on a value: own property of an object or element of an array,
\* undefined otherwise
Prop(node, k) ==
  IF node.t \in {"obj", "arr"} /\ k \in DOMAIN node.kids THEN node.kids[k]
  ELSE Undefined

\* the last segment of a path; path[path.length - 1] of an empty path is
\* undefined, which as a property name reads "undefined"
LastKey(path) == IF Len(path) = 0 THEN "undefined" ELSE path[Len(path)]

\* getAtPath(obj, path)
RECURSIVE getAtPath(_, _)
getAtPath(obj, path) ==
  IF Len(path) = 0 THEN obj
  ELSE getAtPath(IF obj.t \in {"obj", "arr"} THEN Prop(obj, path[1])
                 ELSE Undefined, Tail(path))

\* curr[k] = node
PutKey(node, k, new) ==
  Obj([x \in DOMAIN node.kids \cup {k} |-> IF x = k THEN new ELSE node.kids[x]])

\* delete curr[k]
RemoveKey(node, k) ==
  IF node.t \in {"obj", "arr"}
  THEN [node EXCEPT !.kids = [x \in DOMAIN node.kids \ {k} |-> node.kids[x]]]
  ELSE node

\* setAtPath(obj, path, value): the document after the call
RECURSIVE setAtPath(_, _, _)
\* the loop giving up, as deleteAtPath does, at a segment that is no object
setAtPath_NoCreate(obj, path, value) ==
  IF Len(path) <= 1 THEN PutKey(obj, LastKey(path), Str(value))
  ELSE LET k == path[1]
           old == Prop(obj, k)
       IN IF old.t = "obj" THEN PutKey(obj, k, setAtPath(old, Tail(path), value))
          ELSE obj

\* the loop putting a new object at every intermediate segment
setAtPath_Fresh(obj, path, value) ==
  IF Len(path) <= 1 THEN PutKey(obj, LastKey(path), Str(value))
  ELSE PutKey(obj, path[1], setAtPath(EmptyDoc, Tail(path), value))

setAtPath(obj, path, value) ==
  IF Len(path) <= 1 THEN PutKey(obj, LastKey(path), Str(value))
  ELSE LET k == path[1]
           old == Prop(obj, k)
           curr == IF old.t = "obj" THEN old ELSE EmptyDoc
       IN PutKey(obj, k, setAtPath(curr, Tail(path), value))

\* delete (node at prefix)[k], prefix resolving through objects and arrays
RECURSIVE DeleteKeyAt(_, _, _)
DeleteKeyAt(doc, prefix, k) ==
  IF doc.t \notin {"obj", "arr"} THEN doc
  ELSE IF Len(prefix) = 0 THEN RemoveKey(doc, k)
  ELSE IF prefix[1] \notin DOMAIN doc.kids THEN doc
  ELSE [doc EXCEPT !.kids[prefix[1]] =
                      DeleteKeyAt(doc.kids[prefix[1]], Tail(prefix), k)]

\* the first loop of deleteAtPath gets through every intermediate segment
Resolves(obj, path) ==
  \A i \in 1..(Len(path) - 1) :
     getAtPath(obj, SubSeq(path, 1, i)).t \in {"obj", "arr"}

\* typeof x === "object" && Object.keys(x || {}).length === 0
IsEmptyObject(x) ==
  (x.t \in {"obj", "arr"} /\ DOMAIN x.kids = {}) \/ x.t = "null"

\* the cleanup loop of deleteAtPath, at 1-based index j of path
RECURSIVE CleanupParents(_, _, _)
CleanupParents(doc, path, j) ==
  IF j < 1 THEN doc
  ELSE LET parent == IF j = 1 THEN doc ELSE getAtPath(doc, SubSeq(path, 1, j - 1))
           key == path[j]
       IN IF parent.t \in {"obj", "arr"} /\ IsEmptyObject(Prop(parent, key))
          THEN CleanupParents(DeleteKeyAt(doc, SubSeq(path, 1, j - 1), key),
                              path, j - 1)
          ELSE doc

\* deleteAtPath without its cleanup loop
deleteAtPath_NoCleanup(obj, path) ==
  IF ~Resolves(obj, path) THEN obj
  ELSE DeleteKeyAt(obj, SubSeq(path, 1, Len(path) - 1), LastKey(path))

\* deleteAtPath(obj, path): the document after the call
deleteAtPath(obj, path) ==
  IF ~Resolves(obj, path) THEN obj
  ELSE CleanupParents(
         DeleteKeyAt(obj, SubSeq(path, 1, Len(path) - 1), LastKey(path)),
         path, Len(path) - 1)

\* JSON.parse(JSON.stringify(doc)) of a parsed JSON document
RECURSIVE JsonClone(_)
JsonClone(node) ==
  [t |-> node.t, v |-> node.v,
   kids |-> [k \in DOMAIN node.kids |-> JsonClone(node.kids[k])]]

\* for (const p of deleted) deleteAtPath(updated, p)
RECURSIVE ApplyDeletes(_, _)
ApplyDeletes(doc, paths) ==
  IF Len(paths) = 0 THEN doc
  ELSE ApplyDeletes(deleteAtPath(doc, paths[1]), Tail(paths))

\* for (i ...) setAtPath(updated, toTranslatePaths[i], translatedValues[i])
RECURSIVE ApplySets(_, _, _)
ApplySets(doc, paths, values) ==
  IF Len(paths) = 0 THEN doc
  ELSE ApplySets(setAtPath(doc, paths[1], values[1]), Tail(paths), Tail(values))

\* the proposed document built from an empty one instead of a copy of target
Updated_FromScratch(tj, d, translatedValues) ==
  ApplySets(ApplyDeletes(EmptyDoc, d.deleted),
            d.toTranslatePaths, translatedValues)

\* the proposed document built with the assignments before the deletions
Updated_SetsFirst(tj, d, translatedValues) ==
  ApplyDeletes(ApplySets(JsonClone(tj), d.toTranslatePaths, translatedValues),
               d.deleted)

\* the document run() proposes for one language
Updated(tj, d, translatedValues) ==
  ApplySets(ApplyDeletes(JsonClone(tj), d.deleted),
            d.toTranslatePaths, translatedValues)

(***************************************************************************)
(* Chunking and response validation (src/unnamed/part_003, part_004,       *)
(* src/translate/llm.ts)                                                   *)
(***************************************************************************)
\* items per backend call and attempts per chunk, scaled down for checking
CHUNK_SIZE == 1

MAX_RETRIES == 2

\* arr.slice(from, from + size), from counted from 0
Slice(arr, from, size) ==
  SubSeq(arr, from + 1, IF from + size < Len(arr) THEN from + size ELSE Len(arr))

\* chunk(arr, size)
RECURSIVE ChunkFrom(_, _, _)
\* the loop advancing by one item instead of by size
ChunkFrom_Sliding(arr, size, i) ==
  IF i < Len(arr) THEN <<Slice(arr, i, size)>> \o ChunkFrom(arr, size, i + 1)
  ELSE <<>>

ChunkFrom(arr, size, i) ==
  IF i < Len(arr) THEN <<Slice(arr, i, size)>> \o ChunkFrom(arr, size, i + size)
  ELSE <<>>

chunk(arr, size) == ChunkFrom(arr, size, 0)

\* The content of a string is a sequence of lexemes: plain words and
\* placeholder-like pieces.  Text gives the content of the strings the
\* catalogs and the backend answers of the model are named by.
Text(s) ==
  CASE s = "Hi {{x}}" -> <<"Hi", "{{x}}">>
    [] s = "Hello {{x}}" -> <<"Hello", "{{x}}">>
    [] s = "T:Hi {{x}}" -> <<"T:Hi", "{{x}}">>
    [] s = "T:Hello {{x}}" -> <<"T:Hello", "{{x}}">>
    [] s = "T:Hi {{y}}" -> <<"T:Hi", "{{y}}">>
    [] s = "" -> <<>>
    [] OTHER -> <<s>>

\* the three regular expressions, by what they look for
PLACEHOLDER_PATTERNS == <<"i18next", "indexed", "printf">>

\* what rx matches inside one lexeme, left to right: {{0}} holds a match of
\* the i18next pattern and, inside it, a match {0} of the indexed pattern
Matches(rx, lexeme) ==
  CASE rx = "i18next" /\ lexeme \in {"{{x}}", "{{y}}", "{{0}}"} -> <<lexeme>>
    [] rx = "indexed" /\ lexeme \in {"{0}", "{{0}}"} -> <<"{0}">>
    [] rx = "printf" /\ lexeme \in {"%s", "%1$s"} -> <<lexeme>>
    [] OTHER -> <<>>

\* s.match(rx) ?? []
RECURSIVE MatchAll(_, _)
MatchAll(rx, s) ==
  IF Len(s) = 0 THEN <<>> ELSE Matches(rx, s[1]) \o MatchAll(rx, Tail(s))

\* extractPlaceholders(s): PLACEHOLDER_PATTERNS.flatMap(...)
extractPlaceholders(s) ==
  MatchAll(PLACEHOLDER_PATTERNS[1], s) \o MatchAll(PLACEHOLDER_PATTERNS[2], s)
    \o MatchAll(PLACEHOLDER_PATTERNS[3], s)

\* position of a token in the order of Array.prototype.sort() without a
\* comparator (UTF-16 code units): % < { and, after {, 0 < {
Rank(token) ==
  CASE token = "%1$s" -> 1
    [] token = "%s" -> 2
    [] token = "{0}" -> 3
    [] token = "{{0}}" -> 4
    [] token = "{{x}}" -> 5
    [] token = "{{y}}" -> 6
    [] OTHER -> 7

\* tokens.sort()
RECURSIVE Sorted(_)
Sorted(tokens) ==
  IF Len(tokens) = 0 THEN <<>>
  ELSE LET i == CHOOSE j \in 1..Len(tokens) :
                  \A k \in 1..Len(tokens) : Rank(tokens[j]) <= Rank(tokens[k])
       IN <<tokens[i]>> \o Sorted(SubSeq(tokens, 1, i - 1)
                                    \o SubSeq(tokens, i + 1, Len(tokens)))

\* the comparison without the two sorts
placeholdersMatch_Unsorted(src, out) ==
  extractPlaceholders(src) = extractPlaceholders(out)

\* placeholdersMatch(src, out)
placeholdersMatch(src, out) ==
  LET A == Sorted(extractPlaceholders(src))
      B == Sorted(extractPlaceholders(out))
  IN Len(A) = Len(B) /\ \A i \in 1..Len(A) : A[i] = B[i]

\* what a cooperative backend answers for one input string
Translate(s) ==
  CASE s = "Welcome" -> "T:Welcome"
    [] s = "Hi {{x}}" -> "T:Hi {{x}}"
    [] s = "Hello {{x}}" -> "T:Hello {{x}}"
    [] s = "Bye" -> "T:Bye"
    [] OTHER -> "T:"

\* a translation that garbles the placeholder
Garble(s) == IF extractPlaceholders(Text(s)) = <<>> THEN "T:Hi {{y}}" ELSE "T:"

StrItem(s) == [str |-> TRUE, v |-> s]

NonStrItem == [str |-> FALSE, v |-> ""]

\* a backend outcome: the call rejects, or resolves with a text that is or
\* is not JSON, an array or not, with the given items
Response(ok, json, array, items) ==
  [ok |-> ok, json |-> json, array |-> array, items |-> items]

Responses(values) ==
  LET good == [i \in 1..Len(values) |-> StrItem(Translate(values[i]))]
  IN { Response(FALSE, FALSE, FALSE, <<>>),
       Response(TRUE, FALSE, FALSE, <<>>),
       Response(TRUE, TRUE, FALSE, <<>>),
       Response(TRUE, TRUE, TRUE, good),
       Response(TRUE, TRUE, TRUE, [good EXCEPT ![1] = NonStrItem]),
       Response(TRUE, TRUE, TRUE, SubSeq(good, 1, Len(good) - 1)),
       Response(TRUE, TRUE, TRUE,
                [good EXCEPT ![Len(good)] = StrItem(Garble(values[Len(values)]))]) }

NoError == ""

\* the checks with the length compared before the items are looked at
Validate_LengthFirst(values, r) ==
  IF ~r.ok THEN "Backend failure"
  ELSE IF ~r.json THEN "Non-JSON response"
  ELSE IF ~r.array THEN "Expected JSON array"
  ELSE IF Len(r.items) # Len(values) THEN "Length mismatch"
  ELSE IF \E i \in 1..Len(r.items) : ~r.items[i].str THEN "Non-string item in array"
  ELSE IF \E i \in 1..Len(values) :
             ~placeholdersMatch(Text(values[i]), Text(r.items[i].v))
       THEN "Placeholder mismatch"
  ELSE NoError

\* the checks without the placeholder loop
Validate_NoPlaceholderCheck(values, r) ==
  IF ~r.ok THEN "Backend failure"
  ELSE IF ~r.json THEN "Non-JSON response"
  ELSE IF ~r.array THEN "Expected JSON array"
  ELSE IF \E i \in 1..Len(r.items) : ~r.items[i].str THEN "Non-string item in array"
  ELSE IF Len(r.items) # Len(values) THEN "Length mismatch"
  ELSE NoError

\* the checks of callLLMArray on one response, in the order of the code;
\* the message of the first failing check, NoError when all pass
Validate(values, r) ==
  IF ~r.ok THEN "Backend failure"
  ELSE IF ~r.json THEN "Non-JSON response"
  ELSE IF ~r.array THEN "Expected JSON array"
  ELSE IF \E i \in 1..Len(r.items) : ~r.items[i].str THEN "Non-string item in array"
  ELSE IF Len(r.items) # Len(values) THEN "Length mismatch"
  ELSE IF \E i \in 1..Len(values) :
             ~placeholdersMatch(Text(values[i]), Text(r.items[i].v))
       THEN "Placeholder mismatch"
  ELSE NoError

ItemValues(items) == [i \in 1..Len(items) |-> items[i].v]

\* the loop going past the attempt budget
RetryMore_OneTooMany(i, tries) == i <= tries

\* part_003 31: i < tries
RetryMore(i, tries) == i < tries

\* llm.ts 78-85: what the message of a placeholder mismatch names: the
\* first index (from 0) the loop stops at and the two strings there
MismatchDetail(values, r) ==
  LET i == CHOOSE j \in 1..Len(values) :
              /\ ~placeholdersMatch(Text(values[j]), Text(r.items[j].v))
              /\ \A k \in 1..(j - 1) :
                    placeholdersMatch(Text(values[k]), Text(r.items[k].v))
  IN [idx |-> i - 1, src |-> values[i], out |-> r.items[i].v]

NoDetail == [idx |-> -1, src |-> "", out |-> ""]

\* callLLMArray(values, ...) given what the backend does when called: the
\* promise resolves with the validated array or rejects with an error
callLLMArray(values, r) ==
  IF Len(values) = 0
  THEN [kind |-> "resolved", value |-> <<>>, msg |-> NoError, detail |-> NoDetail]
  ELSE LET e == Validate(values, r)
       IN IF e = NoError
          THEN [kind |-> "resolved", value |-> ItemValues(r.items),
                msg |-> NoError, detail |-> NoDetail]
          ELSE [kind |-> "rejected", value |-> <<>>, msg |-> e,
                detail |-> IF e = "Placeholder mismatch"
                           THEN MismatchDetail(values, r) ELSE NoDetail]

\* the translations of a chunk put in front of the earlier ones
PushAll_InFront(res, translated) == translated \o res

\* llm.ts 105: results.push(...translated)
PushAll(res, translated) == res \o translated

(***************************************************************************)
(* Configuration and fixtures                                              *)
(***************************************************************************)
\* the codes of TARGET_LANGUAGES in src/translate/config.ts, in order
AllLanguages == <<"es", "pt", "fr", "nl", "ja">>

\* how many of them a model run is configured with
NumLangs == 2

TARGET_LANGUAGES == SubSeq(AllLanguages, 1, NumLangs)

\* path.join(LOCALES_DIR, "en", ...) and SLACK_OUTPUT_FILE
LocalENPath == "en"

SLACK_OUTPUT_FILE == "slack-payload.json"

FileNames == {LocalENPath, SLACK_OUTPUT_FILE} \cup Range(TARGET_LANGUAGES)

\* run() called without an argument
NoArg == "<undefined>"

\* the arguments run() is called with: none, the empty string, each
\* configured code, a code that is not configured
LanguageArgs == {NoArg, "", "xx"} \cup Range(TARGET_LANGUAGES)

\* languageCode ? ... : ...
Truthy(code) == code \notin {NoArg, ""}

\* the selection falling back to every language when the code matches none
SelectLanguages_Fallback(code) ==
  LET sel == SelectSeq(TARGET_LANGUAGES, LAMBDA c : c = code)
  IN IF Truthy(code) /\ Len(sel) > 0 THEN sel ELSE TARGET_LANGUAGES

\* main.ts 40-42: the languages a run processes
SelectLanguages(code) ==
  IF Truthy(code) THEN SelectSeq(TARGET_LANGUAGES, LAMBDA c : c = code)
  ELSE TARGET_LANGUAGES

Doc1(k, n) == Obj([x \in {k} |-> n])

\* the live source, a previous source equal to it, and a previous source
\* with one leaf since removed (a.a) and one since reworded (a.b)
LiveDoc ==
  Obj([x \in {"a", "b"} |->
        IF x = "a" THEN Doc1("b", Str("Hi {{x}}")) ELSE Str("Welcome")])

StaleDoc ==
  Obj([x \in {"a", "b"} |->
        IF x = "a"
        THEN Obj([y \in {"a", "b"} |->
                   IF y = "a" THEN Str("Bye") ELSE Str("Hello {{x}}")])
        ELSE Str("Welcome")])

\* a previous source with one leaf since removed (a.a) and nothing reworded
RemovedDoc ==
  Obj([x \in {"a", "b"} |->
        IF x = "a"
        THEN Obj([y \in {"a", "b"} |->
                   IF y = "a" THEN Str("Bye") ELSE Str("Hi {{x}}")])
        ELSE Str("Welcome")])

\* targets translated from LiveDoc and from StaleDoc
SyncedTarget ==
  Obj([x \in {"a", "b"} |->
        IF x = "a" THEN Doc1("b", Str("T:Hi {{x}}")) ELSE Str("T:Welcome")])

StaleTarget ==
  Obj([x \in {"a", "b"} |->
        IF x = "a"
        THEN Obj([y \in {"a", "b"} |->
                   IF y = "a" THEN Str("T:Bye") ELSE Str("T:Hello {{x}}")])
        ELSE Str("T:Welcome")])

File(doc) == [exists |-> TRUE, doc |-> doc]

Missing == [exists |-> FALSE, doc |-> EmptyDoc]

LocalFiles == {File(LiveDoc), File(StaleDoc), File(RemovedDoc)}

TargetFiles == {Missing, File(SyncedTarget), File(StaleTarget)}

(***************************************************************************)
(* State of one run                                                        *)
(***************************************************************************)
VARIABLES
  variant,            \* "main" (src/main.ts) or "reporting" (part_001)
  DRY_RUN,            \* config flag
  IS_GITHUB_ACTIONS,  \* config flag (reporting variant)
  languageCode,       \* the argument of run()
  remote,             \* the document served at LIVE_ENGLISH_URL
  files,              \* the file system: name -> [exists, doc]
  pc,                 \* the await the run is suspended at
  liveEN, localEN, languagesToProcess, proposed,
  langIdx,            \* position of the for-of loop over languagesToProcess
  targetJson, diff,
  chunkIdx,           \* i of translateValues, 1-based
  attempt,            \* i of retry
  lastErr,            \* lastErr of retry / err of the catch block
  results,            \* results of translateValues
  writeIdx,           \* position of the commit loop over proposed
  hasErrors,
  exitCode,           \* process.exitCode
  thrown,             \* the error run() rejected with, NoError if none
  slackErrors,        \* the errors passed to slackLogError
  writes,             \* the completed writeJsonAtomic calls, in order
  failed,             \* the languages whose processing threw
  targetReads, diffCalls, backendCalls,
  input,              \* the arguments of a helper called on its own
  output              \* what that call returned or did

vars ==
  <<variant, DRY_RUN, IS_GITHUB_ACTIONS, languageCode, remote, files, pc,
    liveEN, localEN, languagesToProcess, proposed, langIdx, targetJson, diff,
    chunkIdx, attempt, lastErr, results, writeIdx, hasErrors, exitCode,
    thrown, slackErrors, writes, failed, targetReads, diffCalls, backendCalls,
    input, output>>

config == <<variant, DRY_RUN, IS_GITHUB_ACTIONS, languageCode, remote>>

\* the helper call under study; run() and diffKeys leave it alone
call == <<input, output>>

\* the locals of run() and its callees before anything ran
InitLocals ==
  /\ languagesToProcess = <<>>
  /\ proposed = <<>>
  /\ langIdx = 0
  /\ chunkIdx = 0
  /\ attempt = 0
  /\ lastErr = NoError
  /\ results = <<>>
  /\ writeIdx = 0
  /\ hasErrors = FALSE
  /\ exitCode = 0
  /\ thrown = NoError
  /\ slackErrors = <<>>
  /\ writes = <<>>
  /\ failed = {}
  /\ targetReads = 0
  /\ diffCalls = 0
  /\ backendCalls = 0

Init ==
  /\ variant \in {"main", "reporting"}
  /\ DRY_RUN \in BOOLEAN
  /\ IS_GITHUB_ACTIONS \in (IF variant = "main" THEN {FALSE} ELSE BOOLEAN)
  /\ languageCode \in LanguageArgs
  /\ remote = LiveDoc
  /\ files \in {f \in [FileNames -> LocalFiles \cup TargetFiles] :
                  /\ f[LocalENPath] \in LocalFiles
                  /\ f[SLACK_OUTPUT_FILE] = Missing
                  /\ \A l \in Range(TARGET_LANGUAGES) : f[l] \in TargetFiles}
  /\ pc = "fetch"
  /\ liveEN = EmptyDoc
  /\ localEN = EmptyDoc
  /\ targetJson = EmptyDoc
  /\ diff = EmptyDiff
  /\ input = <<>>
  /\ output = <<>>
  /\ InitLocals

\* readJson(filePath) when the read succeeds or the file does not exist
readJson(name) == IF files[name].exists THEN files[name].doc ELSE EmptyDoc

(***************************************************************************)
(* run(languageCode): where control goes next.  Each operator gives the    *)
(* next values [pc, langIdx, exitCode] of the run.                         *)
(***************************************************************************)
Go(p, li, ec) == [pc |-> p, langIdx |-> li, exitCode |-> ec]

\* after the commit branch: main.ts 111, part_001 188-204
AfterCommit(he) ==
  IF variant = "reporting" /\ IS_GITHUB_ACTIONS THEN Go("slack", langIdx, exitCode)
  ELSE Go("done", langIdx, IF variant = "reporting" /\ he THEN 1 ELSE exitCode)

\* the commit branch without the source sync
AfterWrites_NoSync(he) == AfterCommit(he)

\* the commit branch syncing the source whatever the argument
AfterWrites_AlwaysSync(he) == Go("sync", langIdx, exitCode)

\* after the last write of the commit loop: main.ts 104-108
AfterWrites(he) ==
  IF ~Truthy(languageCode) THEN Go("sync", langIdx, exitCode) ELSE AfterCommit(he)

\* after the language loop: main.ts 95-109
AfterLoop(prop, he) ==
  IF DRY_RUN THEN AfterCommit(he)
  ELSE IF Len(prop) > 0 THEN Go("write", langIdx, exitCode)
  ELSE AfterWrites(he)

\* end of one iteration of the language loop: main.ts 56, 93
AfterLanguage(prop, he) ==
  IF langIdx < Len(languagesToProcess)
  THEN Go("readTarget", langIdx + 1, exitCode)
  ELSE AfterLoop(prop, he)

Goto(c) ==
  /\ pc' = c.pc
  /\ langIdx' = c.langIdx
  /\ exitCode' = c.exitCode
  /\ writeIdx' = IF c.pc = "write" /\ pc # "write" THEN 1 ELSE writeIdx

\* the outer catch block: main.ts 112-117, part_001 205-227
Abort(err) ==
  /\ lastErr' = err
  /\ langIdx' = langIdx
  /\ writeIdx' = writeIdx
  /\ IF variant = "reporting"
     THEN /\ slackErrors' = Append(slackErrors, err)
          /\ IF IS_GITHUB_ACTIONS
             THEN pc' = "abortSlack" /\ UNCHANGED <<exitCode, thrown>>
             ELSE pc' = "done" /\ exitCode' = 1 /\ thrown' = err
     ELSE /\ pc' = "done" /\ exitCode' = 1 /\ thrown' = err
          /\ UNCHANGED slackErrors

\* the proposed write put in front of the earlier ones
Propose_InFront(lang, tj, d, translatedValues) ==
  <<[langCode |-> lang, filePath |-> lang,
     data |-> Updated(tj, d, translatedValues)]>> \o proposed

\* main.ts 81-92: build the proposed document of the language and buffer it
Propose(lang, tj, d, translatedValues) ==
  Append(proposed, [langCode |-> lang, filePath |-> lang,
                    data |-> Updated(tj, d, translatedValues)])

CurrentLang == languagesToProcess[langIdx]

Pieces == chunk(diff.toTranslateValues, CHUNK_SIZE)

(***************************************************************************)
(* The steps of run()                                                      *)
(***************************************************************************)
\* main.ts 26-35: initI18n, fetch the live source
FetchLiveEN ==
  /\ pc = "fetch"
  /\ \/ /\ liveEN' = remote
        /\ pc' = "readLocal"
        /\ UNCHANGED thrown
     \/ /\ thrown' = "Failed to fetch live EN"
        /\ pc' = "done"
        /\ UNCHANGED liveEN
  /\ UNCHANGED <<config, call, files, localEN, languagesToProcess, proposed, langIdx,
                 targetJson, diff, chunkIdx, attempt, lastErr, results,
                 writeIdx, hasErrors, exitCode, slackErrors, writes, failed,
                 targetReads, diffCalls, backendCalls>>

\* main.ts 36-56: read the previous source, select the languages
ReadLocalEN ==
  /\ pc = "readLocal"
  /\ \/ /\ thrown' = "Read failure"
        /\ pc' = "done"
        /\ UNCHANGED <<localEN, languagesToProcess, langIdx>>
     \/ /\ localEN' = readJson(LocalENPath)
        /\ languagesToProcess' = SelectLanguages(languageCode)
        /\ IF Truthy(languageCode) /\ Len(languagesToProcess') = 0
           THEN /\ thrown' = "Language code not found"
                /\ pc' = "done"
                /\ UNCHANGED langIdx
           ELSE /\ pc' = "readTarget"
                /\ langIdx' = 1
                /\ UNCHANGED thrown
  /\ UNCHANGED <<config, call, files, liveEN, proposed, targetJson, diff, chunkIdx,
                 attempt, lastErr, results, writeIdx, hasErrors, exitCode,
                 slackErrors, writes, failed, targetReads, diffCalls,
                 backendCalls>>

\* main.ts 57-93: read the target, diff it, and either send the first chunk
\* to the backend or, with nothing to translate, buffer the proposed write
ReadTarget ==
  /\ pc = "readTarget"
  /\ \/ /\ Abort("Read failure")
        /\ failed' = failed \cup {CurrentLang}
        /\ UNCHANGED <<targetJson, diff, proposed, chunkIdx, attempt, results,
                       targetReads, diffCalls, backendCalls>>
     \/ /\ targetJson' = readJson(CurrentLang)
        /\ targetReads' = targetReads + 1
        /\ diff' = diffKeys(liveEN, localEN, targetJson')
        /\ diffCalls' = diffCalls + 1
        /\ IF Len(diff'.toTranslateValues) > 0
           THEN /\ chunkIdx' = 1
                /\ attempt' = 0
                /\ results' = <<>>
                /\ backendCalls' = backendCalls + 1
                /\ pc' = "call"
                /\ UNCHANGED <<proposed, langIdx, writeIdx, exitCode>>
           ELSE /\ proposed' = Propose(CurrentLang, targetJson', diff', <<>>)
                /\ Goto(AfterLanguage(proposed', hasErrors))
                /\ UNCHANGED <<chunkIdx, attempt, results, backendCalls>>
        /\ UNCHANGED <<lastErr, thrown, slackErrors, failed>>
  /\ UNCHANGED <<config, call, files, liveEN, localEN, languagesToProcess,
                 hasErrors, writes>>

\* llm.ts 60-88, 99-106: the backend answers the pending call; a valid answer
\* is appended to results and the next chunk is sent or the language is
\* finished; an invalid one starts the backoff wait of retry
BackendResponds ==
  /\ pc = "call"
  /\ \E r \in Responses(Pieces[chunkIdx]) :
       LET e == Validate(Pieces[chunkIdx], r)
       IN IF e = NoError
          THEN /\ results' = PushAll(results, ItemValues(r.items))
               /\ IF chunkIdx < Len(Pieces)
                  THEN /\ chunkIdx' = chunkIdx + 1
                       /\ attempt' = 0
                       /\ backendCalls' = backendCalls + 1
                       /\ UNCHANGED <<pc, proposed, langIdx, writeIdx, exitCode>>
                  ELSE /\ proposed' = Propose(CurrentLang, targetJson, diff, results')
                       /\ Goto(AfterLanguage(proposed', hasErrors))
                       /\ UNCHANGED <<chunkIdx, attempt, backendCalls>>
               /\ UNCHANGED lastErr
          ELSE /\ lastErr' = e
               /\ pc' = "backoff"
               /\ UNCHANGED <<results, chunkIdx, attempt, backendCalls,
                              proposed, langIdx, writeIdx, exitCode>>
  /\ UNCHANGED <<config, call, files, liveEN, localEN, languagesToProcess,
                 targetJson, diff, hasErrors, thrown, slackErrors, writes,
                 failed, targetReads, diffCalls>>

\* part_003 38-44: the backoff wait is over; retry calls again or, out of
\* attempts, throws lastErr, which main.ts takes to its catch block and the
\* reporting variant catches per language (part_001 159-169)
BackoffElapsed ==
  /\ pc = "backoff"
  /\ IF RetryMore(attempt + 1, MAX_RETRIES)
     THEN /\ attempt' = attempt + 1
          /\ backendCalls' = backendCalls + 1
          /\ pc' = "call"
          /\ UNCHANGED <<lastErr, langIdx, writeIdx, exitCode, thrown,
                         slackErrors, hasErrors, failed>>
     ELSE /\ failed' = failed \cup {CurrentLang}
          /\ IF variant = "reporting"
             THEN /\ hasErrors' = TRUE
                  /\ slackErrors' = Append(slackErrors, lastErr)
                  /\ Goto(AfterLanguage(proposed, TRUE))
                  /\ UNCHANGED <<lastErr, thrown>>
             ELSE /\ Abort(lastErr)
                  /\ UNCHANGED hasErrors
          /\ UNCHANGED <<attempt, backendCalls>>
  /\ UNCHANGED <<config, call, files, liveEN, localEN, languagesToProcess, proposed,
                 targetJson, diff, chunkIdx, results, writes, targetReads,
                 diffCalls>>

\* writeJsonAtomic(name, doc) completed: the file holds doc
Written(name, doc) ==
  /\ files' = [files EXCEPT ![name] = File(doc)]
  /\ writes' = Append(writes, [file |-> name, obj |-> doc])

\* main.ts 100-103: one write of the commit loop completes or throws
WriteTarget ==
  /\ pc = "write"
  /\ \/ /\ Written(proposed[writeIdx].filePath, proposed[writeIdx].data)
        /\ IF writeIdx < Len(proposed)
           THEN /\ writeIdx' = writeIdx + 1
                /\ UNCHANGED <<pc, langIdx, exitCode>>
           ELSE Goto(AfterWrites(hasErrors))
        /\ UNCHANGED <<lastErr, thrown, slackErrors>>
     \/ /\ Abort("Write failure")
        /\ UNCHANGED <<files, writes>>
  /\ UNCHANGED <<config, call, liveEN, localEN, languagesToProcess, proposed,
                 targetJson, diff, chunkIdx, attempt, results, hasErrors,
                 failed, targetReads, diffCalls, backendCalls>>

\* main.ts 105-108: the previous source is overwritten with the live one
SyncLocalEN ==
  /\ pc = "sync"
  /\ \/ /\ Written(LocalENPath, liveEN)
        /\ Goto(AfterCommit(hasErrors))
        /\ UNCHANGED <<lastErr, thrown, slackErrors>>
     \/ /\ Abort("Write failure")
        /\ UNCHANGED <<files, writes>>
  /\ UNCHANGED <<config, call, liveEN, localEN, languagesToProcess, proposed,
                 targetJson, diff, chunkIdx, attempt, results, hasErrors,
                 failed, targetReads, diffCalls, backendCalls>>

\* part_001 195-204: the report is generated and written, then the exit
\* code is set when a language failed
WriteSlackPayload ==
  /\ pc = "slack"
  /\ \/ /\ Written(SLACK_OUTPUT_FILE, EmptyDoc)
        /\ pc' = "done"
        /\ exitCode' = IF hasErrors THEN 1 ELSE exitCode
        /\ UNCHANGED <<lastErr, thrown, slackErrors, langIdx, writeIdx>>
     \/ /\ Abort("Write failure")
        /\ UNCHANGED <<files, writes>>
  /\ UNCHANGED <<config, call, liveEN, localEN, languagesToProcess, proposed,
                 targetJson, diff, chunkIdx, attempt, results, hasErrors,
                 failed, targetReads, diffCalls, backendCalls>>

\* part_001 213-226: in the catch block the report is written (a failure of
\* that write is swallowed), the exit code is set and the error rethrown
AbortSlack ==
  /\ pc = "abortSlack"
  /\ \/ Written(SLACK_OUTPUT_FILE, EmptyDoc)
     \/ UNCHANGED <<files, writes>>
  /\ pc' = "done"
  /\ exitCode' = 1
  /\ thrown' = lastErr
  /\ UNCHANGED <<config, call, liveEN, localEN, languagesToProcess, proposed,
                 langIdx, targetJson, diff, chunkIdx, attempt, lastErr,
                 results, writeIdx, hasErrors, slackErrors, failed,
                 targetReads, diffCalls, backendCalls>>

Next ==
  \/ FetchLiveEN
  \/ ReadLocalEN
  \/ ReadTarget
  \/ BackendResponds
  \/ BackoffElapsed
  \/ WriteTarget
  \/ SyncLocalEN
  \/ WriteSlackPayload
  \/ AbortSlack

Spec == Init /\ [][Next]_vars

(***************************************************************************)
(* diffKeys on its own: any three catalogs of a bounded family, among them *)
(* keys that hold the join separator, non-string values and empty objects  *)
(***************************************************************************)
DiffKeySet == {"a", "b", "a<NUL>b"}

DiffValues == {"Welcome", "Bye"}

\* what a catalog of the family may hold under a top-level key
DiffChildren(k) ==
  IF k = "a"
  THEN {Str("Welcome"), Num, EmptyDoc} \cup {Doc1("b", Str(v)) : v \in DiffValues}
  ELSE {Str(v) : v \in DiffValues}

DiffDocs ==
  UNION { {Obj(f) : f \in {g \in [S -> UNION {DiffChildren(k) : k \in DiffKeySet}] :
                              \A k \in S : g[k] \in DiffChildren(k)}} :
          S \in SUBSET DiffKeySet }

InitDiff ==
  /\ variant = "main"
  /\ DRY_RUN = FALSE
  /\ IS_GITHUB_ACTIONS = FALSE
  /\ languageCode = NoArg
  /\ remote = EmptyDoc
  /\ files = [n \in FileNames |-> Missing]
  /\ pc = "diff"
  /\ liveEN \in DiffDocs
  /\ localEN \in DiffDocs
  /\ targetJson \in DiffDocs
  /\ diff = EmptyDiff
  /\ input = <<>>
  /\ output = <<>>
  /\ InitLocals

\* diff.ts 4-49: one call of diffKeys on the three catalogs
DiffStep ==
  /\ pc = "diff"
  /\ diff' = diffKeys(liveEN, localEN, targetJson)
  /\ diffCalls' = diffCalls + 1
  /\ pc' = "diffed"
  /\ UNCHANGED <<config, call, files, liveEN, localEN, languagesToProcess, proposed,
                 langIdx, targetJson, chunkIdx, attempt, lastErr, results,
                 writeIdx, hasErrors, exitCode, thrown, slackErrors, writes,
                 failed, targetReads, backendCalls>>

NextDiff == DiffStep

SpecDiff == InitDiff /\ [][NextDiff]_vars

(***************************************************************************)
(* Properties of diffKeys (checked under SpecDiff)                         *)
(***************************************************************************)
\* the node a path leads to through plain objects, segment by segment
RECURSIVE NodeAt(_, _)
NodeAt(doc, p) ==
  IF Len(p) = 0 THEN doc
  ELSE IF doc.t = "obj" THEN NodeAt(Prop(doc, p[1]), Tail(p))
  ELSE Undefined

\* p is a leaf of the catalog: a string reached through plain objects
IsLeaf(doc, p) == Len(p) > 0 /\ NodeAt(doc, p).t = "str"

LeafValue(doc, p) == NodeAt(doc, p).v

\* every path of one or two segments over the keys of the family
DiffPaths ==
  {<<k>> : k \in DiffKeySet} \cup {<<k, j>> : k \in DiffKeySet, j \in DiffKeySet}

NoRepeat(s) == \A i, j \in 1..Len(s) : s[i] = s[j] => i = j

\* position of path p in the sequence walkLeaves yields for doc (0: absent)
WalkIndex(doc, p) ==
  LET w == walkLeaves(doc, <<>>)
      is == {i \in 1..Len(w) : w[i].path = p}
  IN IF is = {} THEN 0 ELSE CHOOSE i \in is : TRUE

Diffed == pc = "diffed"

\* no key of the three catalogs holds the separator U+0000
NoSeparatorInKeys ==
  \A d \in {liveEN, localEN, targetJson} : \A p \in DiffPaths :
     NodeAt(d, p).t # "undef" => \A i \in 1..Len(p) : p[i] # "a<NUL>b"

\* C7: deleted is exactly the set of leaf paths of previousSource that are
\* not leaves of liveSource and are leaves of target
C7_DeletedExact ==
  Diffed =>
    Range(diff.deleted) =
      {p \in DiffPaths : /\ IsLeaf(localEN, p)
                         /\ ~IsLeaf(liveEN, p)
                         /\ IsLeaf(targetJson, p)}

\* C8: a leaf path of liveSource is in toTranslatePaths iff it is not a leaf
\* of target (New) or is a leaf of previousSource with a different value
\* (Modified)
C8_ToTranslateExact ==
  Diffed =>
    \A p \in DiffPaths :
       IsLeaf(liveEN, p) =>
         ( p \in Range(diff.toTranslatePaths)
           <=> \/ ~IsLeaf(targetJson, p)
               \/ /\ IsLeaf(localEN, p)
                  /\ LeafValue(localEN, p) # LeafValue(liveEN, p) )

\* C9: toTranslatePaths and toTranslateValues are parallel: same length,
\* toTranslateValues[i] is the liveSource string at toTranslatePaths[i], and
\* the paths come in the order walkLeaves yields them for liveSource
C9_ParallelSequences ==
  Diffed =>
    /\ Len(diff.toTranslatePaths) = Len(diff.toTranslateValues)
    /\ \A i \in 1..Len(diff.toTranslatePaths) :
          /\ IsLeaf(liveEN, diff.toTranslatePaths[i])
          /\ diff.toTranslateValues[i] = LeafValue(liveEN, diff.toTranslatePaths[i])
    /\ \A i, j \in 1..Len(diff.toTranslatePaths) :
          i < j => WalkIndex(liveEN, diff.toTranslatePaths[i])
                     < WalkIndex(liveEN, diff.toTranslatePaths[j])

\* two paths to translate with different strings, the first walked being
\* the nested one
C9_Witness ==
  /\ Diffed
  /\ Len(diff.toTranslatePaths) >= 2
  /\ Len(diff.toTranslatePaths[1]) = 2
  /\ diff.toTranslateValues[1] # diff.toTranslateValues[2]

\* C10: no path is both in deleted and in toTranslatePaths, and no path
\* occurs twice within deleted or within toTranslatePaths, a path that is
\* both New and Modified included
C10_SingleClass ==
  Diffed =>
    /\ Range(diff.deleted) \cap Range(diff.toTranslatePaths) = {}
    /\ NoRepeat(diff.deleted)
    /\ NoRepeat(diff.toTranslatePaths)

\* a diff with a deleted path and a path that is both New and Modified
C10_Witness ==
  /\ Diffed
  /\ diff.deleted # <<>>
  /\ \E p \in Range(diff.toTranslatePaths) :
        /\ ~IsLeaf(targetJson, p)
        /\ IsLeaf(localEN, p)
        /\ LeafValue(localEN, p) # LeafValue(liveEN, p)

\* C7 and C8 on catalogs whose keys do not hold the separator
DiffExactWithoutSeparator ==
  NoSeparatorInKeys => C7_DeletedExact /\ C8_ToTranslateExact

(***************************************************************************)
(* Properties of run() (checked under Spec)                                *)
(***************************************************************************)
\* the completed writes of catalogs: everything but the report
CatalogWrites == SelectSeq(writes, LAMBDA w : w.file # SLACK_OUTPUT_FILE)

WrittenFiles == {CatalogWrites[i].file : i \in 1..Len(CatalogWrites)}

IsPrefix(s, u) == Len(s) <= Len(u) /\ s = SubSeq(u, 1, Len(s))

Done == pc = "done"

FullRun == ~Truthy(languageCode)

\* C1: when the processing of a language has thrown, no catalog is written:
\* no target catalog, the ones of earlier languages included, and not the
\* source catalog
C1_NoWriteAfterFailure == failed # {} => CatalogWrites = <<>>

\* the writes of a full run that commits: one per language, in language
\* order, with the proposed documents, then the source catalog with the
\* live source
ExpectedWrites ==
  [i \in 1..Len(proposed) |->
     [file |-> proposed[i].filePath, obj |-> proposed[i].data]]
  \o <<[file |-> LocalENPath, obj |-> remote]>>

\* C2: in a full run with dry-run off in which every language succeeds, no
\* write happens before the last language is processed; the writes are one
\* per language in language order with its proposed document, then the
\* source catalog once with the live source
C2_CommitOrder ==
  (FullRun /\ ~DRY_RUN /\ failed = {}) =>
    /\ CatalogWrites # <<>> =>
         /\ Len(proposed) = Len(TARGET_LANGUAGES)
         /\ \A i \in 1..Len(proposed) :
               /\ proposed[i].langCode = TARGET_LANGUAGES[i]
               /\ proposed[i].filePath = TARGET_LANGUAGES[i]
    /\ IsPrefix(CatalogWrites, ExpectedWrites)
    /\ (Done /\ thrown = NoError) => CatalogWrites = ExpectedWrites

\* a full run that translated something and committed every write
C2_Witness ==
  /\ Done /\ thrown = NoError /\ FullRun /\ ~DRY_RUN /\ failed = {}
  /\ backendCalls > 0
  /\ Len(CatalogWrites) = Len(TARGET_LANGUAGES) + 1

\* C3: a run restricted to one configured language never writes the source
\* catalog and writes at most the target catalog of that language
C3_SingleLanguageFrame ==
  languageCode \in Range(TARGET_LANGUAGES) =>
    /\ Len(CatalogWrites) <= 1
    /\ WrittenFiles \subseteq {languageCode}
    /\ LocalENPath \notin WrittenFiles
    /\ langIdx > 0 => files[LocalENPath].doc = localEN

\* a single-language run that ended after writing its target catalog
C3_Witness ==
  /\ Done /\ thrown = NoError
  /\ languageCode \in Range(TARGET_LANGUAGES)
  /\ WrittenFiles = {languageCode}
  /\ files[LocalENPath].doc # liveEN

\* C4: with dry-run set the whole pipeline runs for every selected language,
\* a validation failure aborts the run with its error, and no catalog is
\* written on success or on failure
C4_DryRun ==
  DRY_RUN =>
    /\ CatalogWrites = <<>>
    /\ (Done /\ thrown = NoError /\ langIdx > 0) =>
          /\ diffCalls = Len(languagesToProcess)
          /\ Len(proposed) = Len(languagesToProcess)
    /\ (Done /\ failed # {}) => thrown # NoError

UnknownCodeOutcome ==
  /\ targetReads = 0
  /\ diffCalls = 0
  /\ backendCalls = 0
  /\ writes = <<>>
  /\ proposed = <<>>

C6_AllOrNothing ==
  Done =>
    \/ CatalogWrites = <<>>
    \/ /\ Range(languagesToProcess) \subseteq WrittenFiles
       /\ FullRun => LocalENPath \in WrittenFiles

(***************************************************************************)
(* The proposed document: diffKeys followed by the deletions and the       *)
(* assignments of run(), on the catalogs of SpecDiff                       *)
(***************************************************************************)
\* main.ts 81-92: translatedValues are what a well-behaved backend returns,
\* the proposed document is built from them
ApplyStep ==
  /\ pc = "diffed"
  /\ LET translatedValues == [i \in 1..Len(diff.toTranslateValues) |->
                                Translate(diff.toTranslateValues[i])]
     IN /\ results' = translatedValues
        /\ proposed' = Propose("es", targetJson, diff, translatedValues)
  /\ pc' = "applied"
  /\ UNCHANGED <<config, call, files, liveEN, localEN, languagesToProcess,
                 langIdx, targetJson, diff, chunkIdx, attempt, lastErr,
                 writeIdx, hasErrors, exitCode, thrown, slackErrors, writes,
                 failed, targetReads, diffCalls, backendCalls>>

NextApply == DiffStep \/ ApplyStep

SpecApply == InitDiff /\ [][NextApply]_vars

Applied == pc = "applied"

UpdatedDoc == proposed[1].data

\* p is one of the paths the diff asks to delete or to assign
Touched(p) == p \in Range(diff.deleted) \cup Range(diff.toTranslatePaths)

\* p lies above or below a path the diff asks to delete or to assign
Overlapped(p) ==
  \E q \in Range(diff.deleted) \cup Range(diff.toTranslatePaths) :
     IsPrefix(q, p) \/ IsPrefix(p, q)

\* the proposed document holds no leaf other than the assigned ones and the
\* leaves of target
NothingElseAdded ==
  \A p \in DiffPaths :
     IsLeaf(UpdatedDoc, p) /\ p \notin Range(diff.toTranslatePaths)
       => IsLeaf(targetJson, p) /\ LeafValue(UpdatedDoc, p) = LeafValue(targetJson, p)

\* C11 as stated: in the proposed document every leaf of target whose path
\* is neither in deleted nor in toTranslatePaths is still present with
\* exactly its value, and nothing else is changed.
C11_FrameAsStated ==
  Applied =>
    /\ \A p \in DiffPaths :
          IsLeaf(targetJson, p) /\ ~Touched(p)
            => IsLeaf(UpdatedDoc, p)
               /\ LeafValue(UpdatedDoc, p) = LeafValue(targetJson, p)
    /\ NothingElseAdded

\* C11 amended: in the proposed document every leaf of target whose path is
\* not in deleted or toTranslatePaths, and neither a prefix nor an extension
\* of such a path, is still present with exactly its value; the proposed
\* document holds no leaf besides those and the assigned ones.
C11_Frame ==
  Applied =>
    /\ \A p \in DiffPaths :
          IsLeaf(targetJson, p) /\ ~Overlapped(p)
            => IsLeaf(UpdatedDoc, p)
               /\ LeafValue(UpdatedDoc, p) = LeafValue(targetJson, p)
    /\ NothingElseAdded

\* a deletion and an assignment were applied next to an untouched leaf
C11_Witness ==
  /\ Applied
  /\ diff.deleted # <<>>
  /\ diff.toTranslatePaths # <<>>
  /\ UpdatedDoc # targetJson
  /\ \E p \in DiffPaths :
        IsLeaf(targetJson, p) /\ ~Overlapped(p) /\ IsLeaf(UpdatedDoc, p)

(***************************************************************************)
(* walkLeaves on its own: one walk of a catalog that may hold numbers,     *)
(* null, arrays, empty objects and empty strings                           *)
(***************************************************************************)
WalkKeySet == {"a", "B", "b"}

\* objects nested one level down
WalkInner ==
  UNION { [S -> {Str("Bye"), Num}] : S \in SUBSET {"a", "B"} }

\* what a catalog of the family may hold under a top-level key
WalkChildren ==
  {Str("Welcome"), Str(""), Num, Null, Arr,
   ArrOf([i \in {"0"} |-> Str("Bye")]),
   ArrOf([i \in {"0"} |-> Doc1("a", Str("Bye"))])}
  \cup {Obj(f) : f \in WalkInner}
  \cup {Doc1("b", Doc1("a", Str("Bye")))}

WalkDocs == UNION { {Obj(f) : f \in [S -> WalkChildren]} : S \in SUBSET WalkKeySet }

InitWalk ==
  /\ variant = "main"
  /\ DRY_RUN = FALSE
  /\ IS_GITHUB_ACTIONS = FALSE
  /\ languageCode = NoArg
  /\ remote = EmptyDoc
  /\ files = [n \in FileNames |-> Missing]
  /\ pc = "walk"
  /\ liveEN = EmptyDoc
  /\ localEN = EmptyDoc
  /\ targetJson = EmptyDoc
  /\ diff = EmptyDiff
  /\ input \in [obj : WalkDocs]
  /\ output = <<>>
  /\ InitLocals

\* walkers.ts 4-15: [...walkLeaves(obj)]
WalkStep ==
  /\ pc = "walk"
  /\ output' = walkLeaves(input.obj, <<>>)
  /\ pc' = "walked"
  /\ UNCHANGED <<config, input, files, liveEN, localEN, languagesToProcess,
                 proposed, langIdx, targetJson, diff, chunkIdx, attempt,
                 lastErr, results, writeIdx, hasErrors, exitCode, thrown,
                 slackErrors, writes, failed, targetReads, diffCalls,
                 backendCalls>>

NextWalk == WalkStep

SpecWalk == InitWalk /\ [][NextWalk]_vars

Walked == pc = "walked"

\* every path of one to three segments over the keys and indices in use
WalkPaths ==
  LET K == WalkKeySet \cup {"0"}
  IN {<<k>> : k \in K} \cup {<<k, j>> : k \in K, j \in K}
     \cup {<<k, j, l>> : k \in K, j \in K, l \in K}

\* key a comes before key b in code-point (UTF-16 code unit) order
CodePointBefore(a, b) == SeqCompare(Chars(a), Chars(b)) < 0

\* path p comes before path q when, at the first segment where they differ,
\* the key of p comes first in code-point order
RECURSIVE PathBefore(_, _)
PathBefore(p, q) ==
  IF Len(p) = 0 \/ Len(q) = 0 THEN FALSE
  ELSE IF p[1] = q[1] THEN PathBefore(Tail(p), Tail(q))
  ELSE CodePointBefore(p[1], q[1])

\* C12: walkLeaves yields the leaves depth-first with the keys of each level
\* in code-point order, whatever the collation of the runtime: of two leaves
\* the one yielded first has, at the first segment where the paths differ,
\* the key that is smaller in code-point order.
C12_CodePointOrder ==
  Walked =>
    \A i, j \in 1..Len(output) :
       i < j => PathBefore(output[i].path, output[j].path)

\* the string-valued entries reachable from the root through plain objects
StringEntries(doc) ==
  {[path |-> p, value |-> LeafValue(doc, p)] : p \in {q \in WalkPaths : IsLeaf(doc, q)}}

\* C13: walkLeaves yields exactly the string-valued entries reachable from
\* the root through object-valued nodes, each once with its full path;
\* numbers, null and arrays are skipped and nothing below an array is
\* visited; the empty string is a leaf like any other.
C13_ExactlyStringLeaves ==
  Walked =>
    /\ Range(output) = StringEntries(input.obj)
    /\ Len(output) = Cardinality(StringEntries(input.obj))

\* a walk over a number, null, an array holding a string, an empty string
\* and a nested string
C13_Witness ==
  /\ Walked
  /\ input.obj.t = "obj" /\ DOMAIN input.obj.kids = WalkKeySet
  /\ input.obj.kids["a"] = ArrOf([i \in {"0"} |-> Str("Bye")])
  /\ input.obj.kids["B"] = Str("")
  /\ input.obj.kids["b"] = Obj([k \in {"a", "B"} |->
                                  IF k = "a" THEN Str("Bye") ELSE Num])
  /\ output = <<[path |-> <<"b", "a">>, value |-> "Bye"],
                [path |-> <<"B">>, value |-> ""]>>

(***************************************************************************)
(* The path mutator on its own: one setAtPath followed by getAtPath, or    *)
(* one deleteAtPath, on a document, a path and a value                     *)
(***************************************************************************)
PathKeySet == {"a", "b"}

\* what a document of the family may hold under a top-level key
PathChildren ==
  {Str("Welcome"), Num, Null, Arr, ArrOf([i \in {"0"} |-> Str("Bye")]),
   EmptyDoc, Doc1("a", Str("Bye")), Doc1("b", Doc1("a", Str("Bye"))),
   Doc1("b", EmptyDoc),
   Obj([k \in {"a", "b"} |-> IF k = "a" THEN Str("Bye") ELSE Num])}

PathDocs == UNION { {Obj(f) : f \in [S -> PathChildren]} : S \in SUBSET PathKeySet }

\* the paths of up to three segments over the keys and indices in use
PathArrs ==
  LET K == PathKeySet \cup {"0"}
  IN {<<>>} \cup {<<k>> : k \in K} \cup {<<k, j>> : k \in K, j \in K}
     \cup {<<k, j, l>> : k \in K, j \in K, l \in K}

InitPath ==
  /\ variant = "main"
  /\ DRY_RUN = FALSE
  /\ IS_GITHUB_ACTIONS = FALSE
  /\ languageCode = NoArg
  /\ remote = EmptyDoc
  /\ files = [n \in FileNames |-> Missing]
  /\ pc = "path"
  /\ liveEN = EmptyDoc
  /\ localEN = EmptyDoc
  /\ targetJson = EmptyDoc
  /\ diff = EmptyDiff
  /\ input \in [obj : PathDocs, path : PathArrs, value : {"Welcome", ""}]
  /\ output = <<>>
  /\ InitLocals

CallFrame ==
  UNCHANGED <<config, input, files, liveEN, localEN, languagesToProcess,
              proposed, langIdx, targetJson, diff, chunkIdx, attempt, lastErr,
              results, writeIdx, hasErrors, exitCode, thrown, slackErrors,
              writes, failed, targetReads, diffCalls, backendCalls>>

\* walkers.ts 24-34: setAtPath(obj, path, value)
SetStep ==
  /\ pc = "path"
  /\ output' = [obj |-> setAtPath(input.obj, input.path, input.value),
                got |-> Undefined]
  /\ pc' = "set"
  /\ CallFrame

\* walkers.ts 17-22: getAtPath(obj, path) on the document just assigned to
GetStep ==
  /\ pc = "set"
  /\ output' = [output EXCEPT !.got = getAtPath(output.obj, input.path)]
  /\ pc' = "got"
  /\ CallFrame

\* walkers.ts 36-59: deleteAtPath(obj, path)
DeleteStep ==
  /\ pc = "path"
  /\ output' = [obj |-> deleteAtPath(input.obj, input.path), got |-> Undefined]
  /\ pc' = "deleted"
  /\ CallFrame

NextPath == SetStep \/ GetStep \/ DeleteStep

SpecPath == InitPath /\ [][NextPath]_vars

Got == pc = "got"

\* C14 as stated: for any document, any path and any string value, after
\* setAtPath(doc, path, value) the call getAtPath(doc, path) returns value.
C14_RoundTripAnyPath == Got => output.got = Str(input.value)

\* C14 amended: for any document, any path of at least one segment and any
\* string value, after setAtPath(doc, path, value) the call
\* getAtPath(doc, path) returns value.
C14_RoundTrip ==
  Got /\ Len(input.path) >= 1 => output.got = Str(input.value)

\* a round trip through a path that led into an array before the call
C14_Witness ==
  /\ Got
  /\ Len(input.path) = 3
  /\ getAtPath(input.obj, SubSeq(input.path, 1, 1)).t = "arr"
  /\ getAtPath(input.obj, input.path) # Str(input.value)
  /\ output.got = Str(input.value)

\* the prefixes of a path that name its intermediate segments
ProperPrefixes(path) == {SubSeq(path, 1, n) : n \in 1..(Len(path) - 1)}

\* q lies on the path assigned to, below it, or below an intermediate
\* segment that held no object
SetAffects(old, path, q) ==
  /\ Len(path) >= 1
  /\ \/ IsPrefix(q, path)
     \/ IsPrefix(path, q)
     \/ \E r \in ProperPrefixes(path) : IsPrefix(r, q) /\ NodeAt(old, r).t # "obj"

\* C15: setAtPath on an object document reuses the object found at each
\* intermediate segment, puts a new object where the segment is missing or
\* holds a string, a number, null or an array, and leaves every entry that
\* is neither on the path nor below a replaced node as it was.
C15_SetFrame ==
  pc \in {"set", "got"} =>
    LET old == input.obj
        new == output.obj
        path == input.path
    IN /\ new.t = "obj"
       /\ \A r \in ProperPrefixes(path) :
             LET o == NodeAt(old, r)
                 n == NodeAt(new, r)
                 key == path[Len(r) + 1]
             IN /\ n.t = "obj"
                /\ IF o.t = "obj"
                   THEN /\ DOMAIN n.kids = DOMAIN o.kids \cup {key}
                        /\ \A k \in DOMAIN o.kids \ {key} : n.kids[k] = o.kids[k]
                   ELSE DOMAIN n.kids = {key}
       /\ \A q \in PathArrs \ {<<>>} :
             ~SetAffects(old, path, q) => getAtPath(new, q) = getAtPath(old, q)

\* an assignment that reused an object holding a sibling and replaced a
\* number further down
C15_Witness ==
  /\ pc = "set"
  /\ input.path = <<"b", "b", "a">>
  /\ NodeAt(input.obj, <<"b", "a">>) = Str("Bye")
  /\ NodeAt(input.obj, <<"b", "b">>) = Num
  /\ NodeAt(output.obj, <<"b", "a">>) = Str("Bye")
  /\ NodeAt(output.obj, <<"b", "b">>) = Doc1("a", Str(input.value))

\* node without its entry k
Without(node, k) ==
  [node EXCEPT !.kids = [x \in DOMAIN node.kids \ {k} |-> node.kids[x]]]

\* node after the entry at path is removed and, bottom-up, every container
\* on the path that is left without an entry; node itself stays
RECURSIVE Pruned(_, _)
Pruned(node, path) ==
  IF Len(path) = 1 THEN Without(node, path[1])
  ELSE LET child == Pruned(node.kids[path[1]], Tail(path))
       IN IF DOMAIN child.kids = {} THEN Without(node, path[1])
          ELSE [node EXCEPT !.kids[path[1]] = child]

\* every intermediate segment of the path resolves to an object (a plain
\* object or an array, which typeof reports as "object")
AllContainers(doc, path) ==
  \A r \in ProperPrefixes(path) : getAtPath(doc, r).t \in {"obj", "arr"}

MaxItems == 5

MaxSize == 3

ChunkItems == {"Welcome", "Bye"}

ChunkArrs == UNION { [1..n -> ChunkItems] : n \in 0..MaxItems }

InitChunk ==
  /\ variant = "main"
  /\ DRY_RUN = FALSE
  /\ IS_GITHUB_ACTIONS = FALSE
  /\ languageCode = NoArg
  /\ remote = EmptyDoc
  /\ files = [n \in FileNames |-> Missing]
  /\ pc = "chunk"
  /\ liveEN = EmptyDoc
  /\ localEN = EmptyDoc
  /\ targetJson = EmptyDoc
  /\ diff = EmptyDiff
  /\ input \in [arr : ChunkArrs, size : 1..MaxSize]
  /\ output = <<>>
  /\ InitLocals

\* part_003 23-27: chunk(arr, size)
ChunkStep ==
  /\ pc = "chunk"
  /\ output' = chunk(input.arr, input.size)
  /\ pc' = "chunked"
  /\ CallFrame

NextChunk == ChunkStep

SpecChunk == InitChunk /\ [][NextChunk]_vars

Chunked == pc = "chunked"

\* the groups laid end to end
RECURSIVE Flatten(_)
Flatten(groups) ==
  IF Len(groups) = 0 THEN <<>> ELSE groups[1] \o Flatten(Tail(groups))

\* C17: for every sequence and size n >= 1, chunk(items, n) returns
\* consecutive groups whose concatenation equals items; no group is longer
\* than n, none is empty, every group but the last has exactly n items, and
\* an empty input gives no groups.
C17_ChunkPartition ==
  Chunked =>
    /\ Flatten(output) = input.arr
    /\ \A g \in 1..Len(output) :
          /\ Len(output[g]) >= 1
          /\ Len(output[g]) <= input.size
          /\ g < Len(output) => Len(output[g]) = input.size
    /\ input.arr = <<>> => output = <<>>

\* five items in groups of two: two full groups and a shorter last one
C17_Witness ==
  /\ Chunked
  /\ Len(input.arr) = 5
  /\ input.size = 2
  /\ Len(output) = 3
  /\ Len(output[3]) = 1
  /\ input.arr[1] # input.arr[2]

(***************************************************************************)
(* retry on its own: retry(fn, tries, baseMs) stepped at its awaits, with  *)
(* an operation that may succeed or fail at every attempt.  output.log     *)
(* records the invocations of fn and the elapsed timers in order.          *)
(***************************************************************************)
\* largest number of attempts tried
MaxTries == 3

RETRY_BASE_MS == 800

\* what fn may reject with
RetryErrors == {"Non-JSON response", "Length mismatch", "Placeholder mismatch"}

\* Math.pow(2, i)
RECURSIVE Pow2(_)
Pow2(i) == IF i = 0 THEN 1 ELSE 2 * Pow2(i - 1)

CallEvent(i, ok, r) == [e |-> "call", i |-> i, ok |-> ok, r |-> r, ms |-> 0]

WaitEvent(i, ms) == [e |-> "wait", i |-> i, ok |-> FALSE, r |-> "", ms |-> ms]

Pending == [kind |-> "pending", value |-> ""]

InitRetry ==
  /\ variant = "main"
  /\ DRY_RUN = FALSE
  /\ IS_GITHUB_ACTIONS = FALSE
  /\ languageCode = NoArg
  /\ remote = EmptyDoc
  /\ files = [n \in FileNames |-> Missing]
  /\ pc = "retry"
  /\ liveEN = EmptyDoc
  /\ localEN = EmptyDoc
  /\ targetJson = EmptyDoc
  /\ diff = EmptyDiff
  /\ input \in [tries : 0..MaxTries, baseMs : {1, RETRY_BASE_MS}]
  /\ output = [log |-> <<>>, result |-> Pending]
  /\ InitLocals

RetryFrame ==
  UNCHANGED <<config, input, files, liveEN, localEN, languagesToProcess,
              proposed, langIdx, targetJson, diff, chunkIdx, results,
              writeIdx, hasErrors, exitCode, thrown, slackErrors, writes,
              failed, targetReads, diffCalls, backendCalls>>

\* part_003 31, 44: the loop test; throw lastErr once the loop is left
RetryLoop ==
  /\ pc = "retry"
  /\ IF RetryMore(attempt, input.tries)
     THEN pc' = "retryCall" /\ UNCHANGED output
     ELSE /\ pc' = "retryDone"
          /\ output' = [output EXCEPT
                          !.result = [kind |-> "rejected", value |-> lastErr]]
  /\ UNCHANGED <<attempt, lastErr>>
  /\ RetryFrame

\* part_003 32-36: return await fn(), or catch (err) { lastErr = err; ... }
RetryAttempt ==
  /\ pc = "retryCall"
  /\ \/ /\ output' = [log |-> Append(output.log, CallEvent(attempt, TRUE, "ok")),
                       result |-> [kind |-> "resolved", value |-> "ok"]]
        /\ pc' = "retryDone"
        /\ UNCHANGED lastErr
     \/ \E err \in RetryErrors :
          /\ output' = [output EXCEPT
                          !.log = Append(@, CallEvent(attempt, FALSE, err))]
          /\ lastErr' = err
          /\ pc' = "retryWait"
  /\ UNCHANGED attempt
  /\ RetryFrame

\* part_003 37-41: the timer of baseMs * 2^i has elapsed; i++
RetryDelay ==
  /\ pc = "retryWait"
  /\ output' = [output EXCEPT
                  !.log = Append(@, WaitEvent(attempt, input.baseMs * Pow2(attempt)))]
  /\ attempt' = attempt + 1
  /\ pc' = "retry"
  /\ UNCHANGED lastErr
  /\ RetryFrame

NextRetry == RetryLoop \/ RetryAttempt \/ RetryDelay

SpecRetry == InitRetry /\ [][NextRetry]_vars

\* positions of the invocations of fn in the log
CallsAt == {p \in 1..Len(output.log) : output.log[p].e = "call"}

Invocations == Cardinality(CallsAt)

Settled == pc = "retryDone"

\* C18: retry invokes the operation at most maxAttempts times and never
\* after a success; if attempt k is the first to succeed it is invoked
\* exactly k times and returns that result; if every attempt fails it is
\* invoked exactly maxAttempts times and rejects with the error of the last
\* attempt.
C18_RetryBudget ==
  LET log == output.log
  IN /\ Invocations <= input.tries
     /\ \A p \in CallsAt : log[p].ok => \A q \in CallsAt : q <= p
     /\ Settled /\ output.result.kind = "resolved" =>
          \E p \in CallsAt :
             /\ log[p].ok
             /\ \A q \in CallsAt \ {p} : ~log[q].ok /\ q < p
             /\ Invocations = log[p].i + 1
             /\ output.result.value = log[p].r
     /\ Settled /\ output.result.kind = "rejected" =>
          /\ Invocations = input.tries
          /\ \A p \in CallsAt : ~log[p].ok
          /\ \A p \in CallsAt :
                (\A q \in CallsAt : q <= p) => output.result.value = log[p].r
     /\ Settled => output.result.kind # "pending"

\* three failed attempts with different errors, rejected with the last one
C18_Witness ==
  /\ Settled
  /\ input.tries = 3
  /\ Invocations = 3
  /\ output.result.kind = "rejected"
  /\ output.log[1].r # output.result.value

\* C19: a backoff wait happens only between two consecutive attempts: each
\* wait follows the failure of zero-indexed attempt i, lasts
\* baseDelayMs * 2^i and is followed by attempt i + 1; in particular no
\* wait precedes the first attempt and none follows the final failed one.
C19_BackoffOnlyBetween ==
  LET log == output.log
  IN \A p \in 1..Len(log) :
        log[p].e = "wait" =>
          /\ p > 1
          /\ log[p - 1].e = "call" /\ ~log[p - 1].ok
          /\ log[p].ms = input.baseMs * Pow2(log[p - 1].i)
          /\ Settled => /\ p < Len(log)
                        /\ log[p + 1].e = "call"
                        /\ log[p + 1].i = log[p - 1].i + 1

(***************************************************************************)
(* translateValues inside run() (checked under Spec)                       *)
(***************************************************************************)
\* res holds, position by position, the validated backend output for the
\* first Len(res) of the values
AlignedPrefix(res, values) ==
  /\ Len(res) <= Len(values)
  /\ \A i \in 1..Len(res) :
        /\ res[i] = Translate(values[i])
        /\ placeholdersMatch(Text(values[i]), Text(res[i]))

\* C20: while translateValues runs, results holds the validated backend
\* output for the values of the chunks done so far, in the order of the
\* values; when it returns (the proposed document is built), results has
\* the length of values and results[i] is the output for values[i],
\* however many chunks and retried attempts it took.
C20_ResultsAligned ==
  [][pc = "call" =>
       /\ AlignedPrefix(results', diff.toTranslateValues)
       /\ Len(proposed') > Len(proposed)
            => Len(results') = Len(diff.toTranslateValues)]_vars

\* translateValues returned two different translations after a failed
\* attempt was retried
C20_Witness ==
  /\ pc \notin {"call", "backoff"}
  /\ Len(proposed) = 1
  /\ lastErr # NoError
  /\ thrown = NoError
  /\ Len(results) = 2
  /\ results[1] # results[2]
  /\ Len(diff.toTranslateValues) = 2
  /\ AlignedPrefix(results, diff.toTranslateValues)

(***************************************************************************)
(* placeholdersMatch on its own: one call on two strings                   *)
(***************************************************************************)
\* longest string tried, in lexemes
MaxLexemes == 2

Lexemes == {"Hi", "{{x}}", "{{y}}", "{0}", "{{0}}", "%s", "%1$s"}

Strings == UNION { [1..n -> Lexemes] : n \in 0..MaxLexemes }

InitMatch ==
  /\ variant = "main"
  /\ DRY_RUN = FALSE
  /\ IS_GITHUB_ACTIONS = FALSE
  /\ languageCode = NoArg
  /\ remote = EmptyDoc
  /\ files = [n \in FileNames |-> Missing]
  /\ pc = "match"
  /\ liveEN = EmptyDoc
  /\ localEN = EmptyDoc
  /\ targetJson = EmptyDoc
  /\ diff = EmptyDiff
  /\ input \in [src : Strings, out : Strings]
  /\ output = <<>>
  /\ InitLocals

\* part_004 12-16: placeholdersMatch(src, out)
MatchStep ==
  /\ pc = "match"
  /\ output' = placeholdersMatch(input.src, input.out)
  /\ pc' = "matched"
  /\ CallFrame

NextMatch == MatchStep

SpecMatch == InitMatch /\ [][NextMatch]_vars

Matched == pc = "matched"

\* how many times token occurs among the tokens extracted from s
Occurrences(token, s) ==
  Cardinality({i \in 1..Len(extractPlaceholders(s)) :
                 extractPlaceholders(s)[i] = token})

SameTokens(a, b) ==
  \A token \in Range(extractPlaceholders(a)) \cup Range(extractPlaceholders(b)) :
     Occurrences(token, a) = Occurrences(token, b)

\* a dropped, an added, a duplicated and a renamed token each break the match
BreaksMatch ==
  /\ ~placeholdersMatch(<<"{{x}}", "%s">>, <<"Hi", "%s">>)
  /\ ~placeholdersMatch(<<"Hi", "%s">>, <<"{0}", "%s">>)
  /\ ~placeholdersMatch(<<"Hi", "{{x}}">>, <<"{{x}}", "{{x}}">>)
  /\ ~placeholdersMatch(<<"Hi", "{{x}}">>, <<"Hi", "{{y}}">>)

\* C22: placeholdersMatch(source, candidate) holds exactly when the two
\* strings carry the same placeholder tokens with the same multiplicities,
\* in whatever order; it is reflexive and symmetric, and it fails when a
\* token is dropped, added, duplicated or renamed.
C22_MultisetMatch ==
  Matched =>
    /\ output = SameTokens(input.src, input.out)
    /\ BreaksMatch
    /\ input.src = input.out => output = TRUE
    /\ output = placeholdersMatch(input.out, input.src)

\* two strings with the same two tokens in opposite orders match
C22_Witness ==
  /\ Matched
  /\ input.src = <<"{{x}}", "{{y}}">>
  /\ input.out = <<"{{y}}", "{{x}}">>
  /\ output = TRUE

(***************************************************************************)
(* callLLMArray on its own: one call on a chunk of values and one backend  *)
(* outcome                                                                 *)
(***************************************************************************)
\* longest chunk and longest answer tried
MaxValues == 2

MaxAnswer == 3

AnswerItems ==
  {NonStrItem, StrItem("T:Welcome"), StrItem("T:Hi {{x}}"), StrItem("T:Hi {{y}}")}

\* the outcomes of model.generateContent: a rejection, a text that is not
\* JSON, JSON that is not an array, an array of any items
Answers ==
  {Response(FALSE, FALSE, FALSE, <<>>), Response(TRUE, FALSE, FALSE, <<>>),
   Response(TRUE, TRUE, FALSE, <<>>)}
  \cup {Response(TRUE, TRUE, TRUE, items) :
          items \in UNION { [1..n -> AnswerItems] : n \in 0..MaxAnswer }}

ValueChunks == UNION { [1..n -> {"Welcome", "Hi {{x}}"}] : n \in 0..MaxValues }

InitValidate ==
  /\ variant = "main"
  /\ DRY_RUN = FALSE
  /\ IS_GITHUB_ACTIONS = FALSE
  /\ languageCode = NoArg
  /\ remote = EmptyDoc
  /\ files = [n \in FileNames |-> Missing]
  /\ pc = "validate"
  /\ liveEN = EmptyDoc
  /\ localEN = EmptyDoc
  /\ targetJson = EmptyDoc
  /\ diff = EmptyDiff
  /\ input \in [values : ValueChunks, r : Answers]
  /\ output = <<>>
  /\ InitLocals

\* llm.ts 44-89: callLLMArray settles
ValidateStep ==
  /\ pc = "validate"
  /\ output' = callLLMArray(input.values, input.r)
  /\ pc' = "validated"
  /\ CallFrame

NextValidate == ValidateStep

SpecValidate == InitValidate /\ [][NextValidate]_vars

Validated == pc = "validated" /\ Len(input.values) > 0 /\ input.r.ok

AllStrings(items) == \A i \in 1..Len(items) : items[i].str

\* the indices (from 1) at which the answer fails the placeholder check
Mismatches(values, items) ==
  {i \in 1..Len(values) : ~placeholdersMatch(Text(values[i]), Text(items[i].v))}

\* C25: the checks are applied in a fixed order and the first failing one
\* decides the error: not parseable, then not an array, then a non-string
\* element (even if the length is wrong too), then a length different from
\* the chunk's, then the first index failing the placeholder check; only a
\* response passing all five is returned.
C25_ValidationOrder ==
  Validated =>
    LET r == input.r
        values == input.values
        passes == /\ r.json /\ r.array /\ AllStrings(r.items)
                  /\ Len(r.items) = Len(values)
                  /\ Mismatches(values, r.items) = {}
    IN /\ ~r.json => output.msg = "Non-JSON response"
       /\ r.json /\ ~r.array => output.msg = "Expected JSON array"
       /\ r.array /\ ~AllStrings(r.items) => output.msg = "Non-string item in array"
       /\ r.array /\ AllStrings(r.items) /\ Len(r.items) # Len(values)
            => output.msg = "Length mismatch"
       /\ r.array /\ AllStrings(r.items) /\ Len(r.items) = Len(values)
            /\ Mismatches(values, r.items) # {}
            => /\ output.msg = "Placeholder mismatch"
               /\ \A i \in Mismatches(values, r.items) : output.detail.idx + 1 <= i
               /\ output.detail.idx + 1 \in Mismatches(values, r.items)
       /\ output.kind = "resolved" <=> passes
       /\ output.kind = "resolved" => output.value = ItemValues(r.items)
       /\ output.kind = "rejected" <=> output.msg # NoError

\* an answer with a non-string element and the wrong length is rejected for
\* the element
C25_Witness ==
  /\ Validated
  /\ Len(input.values) = 2
  /\ Len(input.r.items) = 3
  /\ ~AllStrings(input.r.items)
  /\ output.msg = "Non-string item in array"

(***************************************************************************)
(* Placeholder safety inside run() (checked under Spec)                    *)
(***************************************************************************)
\* C21: no translation failing the placeholder check is accepted: whenever
\* the backend has answered, every string in results matches the
\* placeholders of the input string at its index, an attempt that ended in
\* a placeholder mismatch added nothing to results, and every value of a
\* newly proposed document at toTranslatePaths[i] has the placeholders of
\* the liveSource string at that path.
C21_PlaceholderSafety ==
  [][pc = "call" =>
       /\ \A i \in 1..Len(results') :
             placeholdersMatch(Text(diff.toTranslateValues[i]), Text(results'[i]))
       /\ lastErr' = "Placeholder mismatch" /\ pc' = "backoff" => results' = results
       /\ Len(proposed') > Len(proposed) =>
             \A i \in 1..Len(diff.toTranslatePaths) :
                LET p == diff.toTranslatePaths[i]
                    doc == proposed'[Len(proposed')].data
                IN /\ IsLeaf(doc, p)
                   /\ IsLeaf(liveEN, p)
                   /\ placeholdersMatch(Text(LeafValue(liveEN, p)),
                                        Text(LeafValue(doc, p)))]_vars

\* a document holding a placeholder was proposed after an answer with a
\* garbled placeholder had been refused and the chunk retried
C21_Witness ==
  /\ Len(proposed) = 1
  /\ pc \notin {"call", "backoff"}
  /\ lastErr = "Placeholder mismatch"
  /\ thrown = NoError
  /\ failed = {}
  /\ \E i \in 1..Len(results) : extractPlaceholders(Text(results[i])) # <<>>
  /\ \E p \in Range(diff.toTranslatePaths) :
        extractPlaceholders(Text(LeafValue(proposed[1].data, p))) # <<>>

(***************************************************************************)
(* How a run that aborts ends (checked under Spec)                         *)
(***************************************************************************)
\* the run rejected, or the processing of a language threw
Aborted == thrown # NoError \/ failed # {}

\* C23: whenever a run aborts, whatever the cause, run() has set a non-zero
\* exit code, the triggering error was passed to the reporting sink (where
\* the variant has one) and it is rethrown to the caller.
C23_AbortSignalled ==
  Done /\ Aborted =>
    /\ exitCode # 0
    /\ thrown # NoError
    /\ variant = "reporting" => \E i \in 1..Len(slackErrors) : slackErrors[i] = thrown

(***************************************************************************)
(* The status of the report: generateSlackPayload on the errors and the    *)
(* language entries logged so far                                          *)
(***************************************************************************)
\* most errors, most language entries and largest count tried
MaxErrors == 2

MaxEntries == 3

MaxCount == 2

\* the status texts of slack-data.ts 165-169, the leading emoji spelled out
STATUS_FAILED == "(red) Failed - Translation errors occurred"

STATUS_NONE == "(white) No translations were needed"

STATUS_PASSED == "(green) Passed - No issues in translation"

\* languageEntries.reduce((sum, lang) => sum + lang.stringsTranslated, 0)
RECURSIVE totalStringsTranslated(_)
totalStringsTranslated(languageEntries) ==
  IF Len(languageEntries) = 0 THEN 0
  ELSE languageEntries[1].stringsTranslated
       + totalStringsTranslated(Tail(languageEntries))

\* slack-data.ts 163-170
Status(errors, languageEntries) ==
  IF Len(errors) > 0 THEN STATUS_FAILED
  ELSE IF totalStringsTranslated(languageEntries) = 0 THEN STATUS_NONE
  ELSE STATUS_PASSED

InitStatus ==
  /\ variant = "reporting"
  /\ DRY_RUN = FALSE
  /\ IS_GITHUB_ACTIONS = TRUE
  /\ languageCode = NoArg
  /\ remote = EmptyDoc
  /\ files = [n \in FileNames |-> Missing]
  /\ pc = "status"
  /\ liveEN = EmptyDoc
  /\ localEN = EmptyDoc
  /\ targetJson = EmptyDoc
  /\ diff = EmptyDiff
  /\ input \in [errors : UNION { [1..n -> {"Translation API failed"}] :
                                  n \in 0..MaxErrors },
                 languageEntries :
                   UNION { [1..n -> [stringsTranslated : 0..MaxCount]] :
                           n \in 0..MaxEntries }]
  /\ output = <<>>
  /\ InitLocals

\* slack-data.ts 129-207: generateSlackPayload().status
StatusStep ==
  /\ pc = "status"
  /\ output' = Status(input.errors, input.languageEntries)
  /\ pc' = "reported"
  /\ CallFrame

NextStatus == StatusStep

SpecStatus == InitStatus /\ [][NextStatus]_vars

\* the warning status the tests of the collector expect
STATUS_WARNING == "(yellow) Warning - No translations were needed"

\* C24: the status is the failure status whenever an error was logged,
\* whatever the counts; otherwise the warning status "Warning - No
\* translations were needed" when the strings translated over all languages
\* total zero (also with no language logged); otherwise the success status.
C24_StatusPrecedence ==
  pc = "reported" =>
    output = IF Len(input.errors) > 0 THEN STATUS_FAILED
             ELSE IF \A i \in 1..Len(input.languageEntries) :
                        input.languageEntries[i].stringsTranslated = 0
                  THEN STATUS_WARNING
                  ELSE STATUS_PASSED

(***************************************************************************)
(* Retries of a chunk inside run() (checked under Spec)                    *)
(***************************************************************************)
HasProposal(prop, lang) == \E i \in 1..Len(prop) : prop[i].langCode = lang

\* C26: every failed attempt of a chunk is followed by a backoff and, while
\* fewer than MAX_RETRIES calls were made for the chunk, by another call
\* for the same chunk; after MAX_RETRIES failed calls the last error is
\* handed to the orchestrator, no further call is made for that language
\* and no write is proposed for it.
C26_RetryThenAbortLanguage ==
  [][/\ pc = "call" /\ results' = results => pc' = "backoff" /\ lastErr' # NoError
     /\ pc = "backoff" =>
          IF attempt + 1 < MAX_RETRIES
          THEN /\ pc' = "call"
               /\ chunkIdx' = chunkIdx
               /\ attempt' = attempt + 1
               /\ backendCalls' = backendCalls + 1
          ELSE /\ CurrentLang \in failed'
               /\ proposed' = proposed
               /\ backendCalls' = backendCalls
               /\ lastErr' = lastErr
               /\ IF variant = "reporting"
                  THEN slackErrors' = Append(slackErrors, lastErr)
                  ELSE pc' = "done" /\ thrown' = lastErr
     /\ pc' \in {"call", "backoff"} =>
          /\ attempt' < MAX_RETRIES
          /\ languagesToProcess'[langIdx'] \notin failed'
     /\ \A l \in failed' : ~HasProposal(proposed', l)]_vars

\* a language was given up after MAX_RETRIES answers of the wrong length to
\* its first chunk
C26_Witness ==
  /\ Done
  /\ failed # {}
  /\ lastErr = "Length mismatch"
  /\ backendCalls = MAX_RETRIES
  /\ proposed = <<>>

(***************************************************************************)
(* The order of the steps of run() (checked under Spec)                    *)
(***************************************************************************)
\* the backend calls in flight
InFlight == IF pc = "call" THEN 1 ELSE 0

LangIndex(lang) ==
  CHOOSE i \in 1..Len(languagesToProcess) : languagesToProcess[i] = lang

\* C27: the languages are taken one after the other in configured order;
\* a backend call is issued only when none is in flight or in the step
\* that completes the one in flight: the first chunk of a language, the
\* next chunk after a valid answer to the previous one, or the same chunk
\* again after its backoff; proposed writes are appended in language order.
C27_NothingOverlaps ==
  [][/\ InFlight \in {0, 1}
     /\ backendCalls' \in {backendCalls, backendCalls + 1}
     /\ backendCalls' = backendCalls + 1 =>
          /\ pc' = "call"
          /\ langIdx' = langIdx
          /\ CASE pc = "readTarget" -> chunkIdx' = 1 /\ attempt' = 0
               [] pc = "backoff" -> chunkIdx' = chunkIdx /\ attempt' = attempt + 1
               [] pc = "call" -> /\ chunkIdx' = chunkIdx + 1
                                 /\ attempt' = 0
                                 /\ Len(results') = Len(results) + Len(Pieces[chunkIdx])
               [] OTHER -> FALSE
     /\ backendCalls' = backendCalls => chunkIdx' = chunkIdx /\ attempt' = attempt
     /\ langIdx' \in {langIdx, langIdx + 1}
     /\ langIdx' = langIdx + 1 /\ langIdx > 0 =>
          pc \in {"readTarget", "call", "backoff"} /\ pc' = "readTarget"
     /\ proposed' # proposed =>
          /\ Len(proposed') = Len(proposed) + 1
          /\ SubSeq(proposed', 1, Len(proposed)) = proposed
          /\ proposed'[Len(proposed')].langCode = CurrentLang
          /\ \A i \in 1..Len(proposed) :
               LangIndex(proposed[i].langCode) < langIdx]_vars

\* a full run over two languages in which a chunk was retried and a second
\* chunk followed another: every proposed write is in configured order
C27_Witness ==
  /\ Done
  /\ Len(proposed) = Len(languagesToProcess)
  /\ Len(proposed) >= 2
  /\ chunkIdx >= 2
  /\ backendCalls > 2 * chunkIdx
  /\ \A i \in 1..Len(proposed) : proposed[i].langCode = languagesToProcess[i]

(***************************************************************************)
(* What the proposed document holds at the listed paths (SpecApply)        *)
(***************************************************************************)
ProperPrefix(s, u) == IsPrefix(s, u) /\ s # u

\* C28: in the proposed document every toTranslatePaths[i] is the string
\* translatedValues[i] and no path of deleted is a string leaf, for every
\* triple of catalogs of the family.
C28_AssignedAndDeleted ==
  Applied =>
    /\ \A i \in 1..Len(diff.toTranslatePaths) :
          NodeAt(UpdatedDoc, diff.toTranslatePaths[i]) = Str(results[i])
    /\ \A i \in 1..Len(diff.deleted) : ~IsLeaf(UpdatedDoc, diff.deleted[i])

\* a target leaf was deleted at a path above a path to translate: target
\* holds a string where liveSource has an object
C28_Witness ==
  /\ Applied
  /\ \E d \in Range(diff.deleted), q \in Range(diff.toTranslatePaths) :
        ProperPrefix(d, q) /\ IsLeaf(targetJson, d) /\ IsLeaf(UpdatedDoc, q)

(***************************************************************************)
(* A language with nothing to translate (checked under Spec)               *)
(***************************************************************************)
\* C29: when the diff of a language lists no string to translate, the step
\* that read and diffed its target issues no backend call, appends the
\* proposed write of that language, whose document is the target as read
\* with the deleted paths removed, and records no failure.
C29_NothingToTranslate ==
  [][pc = "readTarget" /\ diffCalls' = diffCalls + 1
       /\ Len(diff'.toTranslateValues) = 0 =>
       /\ backendCalls' = backendCalls
       /\ pc' \notin {"call", "backoff"}
       /\ proposed' = Append(proposed,
                             [langCode |-> CurrentLang, filePath |-> CurrentLang,
                              data |-> ApplyDeletes(targetJson', diff'.deleted)])
       /\ \A i \in 1..Len(diff'.deleted) :
             ~IsLeaf(proposed'[Len(proposed')].data, diff'.deleted[i])
       /\ failed' = failed
       /\ hasErrors' = hasErrors
       /\ thrown' = thrown
       /\ lastErr' = lastErr]_vars

\* a run whose languages all had a leaf to delete and nothing to translate
\* ended without a backend call and wrote the pruned documents
C29_Witness ==
  /\ Done
  /\ backendCalls = 0
  /\ failed = {}
  /\ Len(proposed) >= 1
  /\ Len(proposed) = Len(languagesToProcess)
  /\ Len(diff.deleted) > 0
  /\ IsLeaf(targetJson, diff.deleted[1])
  /\ proposed[Len(proposed)].data # targetJson
  /\ \E i \in 1..Len(writes) : writes[i].obj = proposed[Len(proposed)].data

(***************************************************************************)
(* A run repeated on what it stored.  One language ("es") of a run over    *)
(* any three catalogs of the family: diff, apply, then the commit and the  *)
(* next run's read and diff of the same language.                          *)
(***************************************************************************)
InitRepeat ==
  /\ variant = "main"
  /\ DRY_RUN = FALSE
  /\ IS_GITHUB_ACTIONS = FALSE
  /\ languageCode \in {NoArg, "es"}
  /\ remote = EmptyDoc
  /\ files = [n \in FileNames |-> Missing]
  /\ pc = "diff"
  /\ liveEN \in DiffDocs
  /\ localEN \in DiffDocs
  /\ targetJson \in DiffDocs
  /\ diff = EmptyDiff
  /\ input = <<>>
  /\ output = <<>>
  /\ InitLocals

\* main.ts 100-108, then 36-70 of the next run: the proposed document is
\* written, the source catalog is advanced when no language was named, and
\* the next run reads both back and diffs them against the same live source
RepeatStep ==
  /\ pc = "applied"
  /\ files' = [files EXCEPT
                 !["es"] = File(UpdatedDoc),
                 ![LocalENPath] = IF ~Truthy(languageCode) THEN File(liveEN) ELSE @]
  /\ writes' = writes \o <<[file |-> "es", obj |-> UpdatedDoc]>>
                  \o (IF ~Truthy(languageCode)
                      THEN <<[file |-> LocalENPath, obj |-> liveEN]>> ELSE <<>>)
  /\ localEN' = IF ~Truthy(languageCode) THEN files'[LocalENPath].doc ELSE localEN
  /\ targetJson' = files'["es"].doc
  /\ targetReads' = targetReads + 1
  /\ diff' = diffKeys(liveEN, localEN', targetJson')
  /\ diffCalls' = diffCalls + 1
  /\ pc' = "rediffed"
  /\ UNCHANGED <<config, call, liveEN, languagesToProcess, proposed, langIdx,
                 chunkIdx, attempt, lastErr, results, writeIdx, hasErrors,
                 exitCode, thrown, slackErrors, failed, backendCalls>>

NextRepeat == DiffStep \/ ApplyStep \/ RepeatStep

SpecRepeat == InitRepeat /\ [][NextRepeat]_vars

\* p was listed by the diff because its source text changed
Modified(p) ==
  /\ p \in Range(diff.toTranslatePaths)
  /\ IsLeaf(localEN, p)
  /\ LeafValue(localEN, p) # LeafValue(liveEN, p)

\* C30: after a run over every language the next run's diff lists nothing
\* to delete and nothing to translate, so that no backend call follows and
\* the document it proposes equals the stored one; after a run of a single
\* language every Modified path is listed again.
C30_FixedPoint ==
  [][pc = "applied" /\ pc' = "rediffed" =>
       IF ~Truthy(languageCode)
       THEN /\ diff'.deleted = <<>>
            /\ diff'.toTranslatePaths = <<>>
            /\ Len(diff'.toTranslateValues) = 0
            /\ Updated(targetJson', diff', <<>>) = targetJson'
       ELSE \A p \in DiffPaths :
               Modified(p) => p \in Range(diff'.toTranslatePaths)]_vars
====
